---- MODULE Spec2Model ----
(***************************************************************************)
(* A model of vane's device command dispatch and result recording          *)
(* (src/vane/bin/tests_tools.py) and of the test cases that use it.        *)
(*                                                                         *)
(* Python strings are modelled as sequences of symbols, so that the        *)
(* substring test `a in b`, string concatenation and f-strings are what    *)
(* they are in the code.  The empty string is the empty sequence.          *)
(***************************************************************************)
EXTENDS Integers, Sequences, FiniteSets, TLC

VARIABLES
    sc_orig,      \* send_cmds: the command list as first passed in
    sc_conn,      \* send_cmds: the connection's behaviour
    sc_frame,     \* send_cmds: the running call
    heap,         \* fan-out: the Python list objects (shared list and copies)
    duts,         \* fan-out: the device records built by login_duts
    lpc,          \* fan-out: where init_duts is
    task,         \* fan-out: the record handed to each submitted worker
    wpc,          \* fan-out: where each dut_worker is
    wloc,         \* fan-out: each dut_worker's local variables
    definitions,  \* tests: the loaded test definitions (test_suites)
    tops,         \* tests: the running test case and its TestOps object
    files,        \* tests: the result files, each a sequence of YAML documents
    testlog,      \* tests: the finished test runs and their outcomes
    rm_call,      \* remove_cmd: one call, its arguments and what it returned
    td_call,      \* definitions: one call of return_show_cmds or get_parameters
    reg_params,   \* registry: the definitions handed to the registry functions
    reg,          \* registry: the running call of return_dut_list or login_duts
    log_params,   \* show log: the definitions' parameters (show_log is the configured log)
    logs,         \* show log: the text files, each a string
    rsc,          \* show log: the running call of return_show_cmd
    exported,     \* show log: the export_logs calls that succeeded, in order
    yaml_files,   \* yaml_io: the content of each file
    flock,        \* yaml_io: which open file holds each file's lock
    yio           \* yaml_io: where each caller of yaml_io is

sendVars == <<sc_orig, sc_conn, sc_frame>>
fanVars  == <<heap, duts, lpc, task, wpc, wloc>>
recVars  == <<definitions, tops, files, testlog>>
rmVars   == <<rm_call>>
defVars  == <<td_call>>
regVars  == <<reg_params, reg>>
showVars == <<log_params, logs, rsc, exported>>
yamlVars == <<yaml_files, flock, yio>>
toolVars == <<rmVars, defVars, regVars, showVars, yamlVars>>
vars     == <<sendVars, fanVars, recVars, toolVars>>

----------------------------------------------------------------------------
(* Bounds *)

MaxCmds == 3          \* longest command list handed to one send_cmds call
MaxShared == 2        \* longest shared command list of a fan-out
MaxRuns == 2          \* test runs in one session

\* Python's recursion limit, far above the length of any command list.
RecursionLimit == MaxCmds + 2

----------------------------------------------------------------------------
(* Strings *)

EmptyStr == << >>

ShowIp      == <<"show", " ", "ip">>
ShowIpRoute == <<"show", " ", "ip", " ", "route">>
ShowVersion == <<"show", " ", "version">>
ShowFoo     == <<"show", " ", "foo">>

CmdUniverse == {ShowIp, ShowIpRoute, ShowVersion, ShowFoo}

Encodings == {"json", "text"}

\* Faulty variant: a match only when the text is the string itself.
IsSubstr_whole(s, t) == s = t
\* Python `s in t` on strings: s occurs as a contiguous part of t.
IsSubstr(s, t) ==
    \E i \in 0..(Len(t) - Len(s)) : SubSeq(t, i + 1, i + Len(s)) = s

Range(s) == {s[i] : i \in 1..Len(s)}

\* Python list.index(x): the first position holding x.
ListIndex(l, x) == CHOOSE i \in 1..Len(l) : l[i] = x /\ \A j \in 1..(i - 1) : l[j] # x

\* Python list.pop(i).
ListPop(l, i) == SubSeq(l, 1, i - 1) \o SubSeq(l, i + 1, Len(l))

\* The duplicate-free lists over S of length at most n.
RECURSIVE ListsUpTo(_, _)
ListsUpTo(S, n) ==
    IF n = 0 THEN {<< >>}
    ELSE LET shorter == ListsUpTo(S, n - 1)
         IN  shorter \cup {Append(l, x) : l \in shorter, x \in S}

DupFree(l) == \A i, j \in 1..Len(l) : l[i] = l[j] => i = j

CmdLists(n) == {l \in ListsUpTo(CmdUniverse, n) : DupFree(l)}

\* l without the members of S, order kept.
RECURSIVE Without(_, _)
Without(l, S) ==
    IF l = << >> THEN << >>
    ELSE IF Head(l) \in S THEN Without(Tail(l), S)
         ELSE <<Head(l)>> \o Without(Tail(l), S)

----------------------------------------------------------------------------
(* The connection (pyeapi), as far as send_cmds sees it *)

\* str(e) of a rejection: the rejected commands it names, each quoted, in
\* the order of the batch.
RECURSIVE NamedIn(_, _)
NamedIn(batch, named) ==
    IF batch = << >> THEN << >>
    ELSE (IF Head(batch) \in named THEN <<"'">> \o Head(batch) \o <<"'">> ELSE << >>)
         \o NamedIn(Tail(batch), named)

ErrText(batch, named) == <<"Error: invalid command ">> \o NamedIn(batch, named)

\* str(e) of a failure that is not about any command.
DownText == <<"Error: connection refused">>

\* What the connection answers for one command.
Reply(name, encoding, cmd) ==
    IF encoding = "json" THEN <<"json", name, cmd>>
    ELSE [output |-> <<"text", name, cmd>>]

\* conn.run_commands on an accepted batch: one reply per command, in order.
run_commands(name, encoding, batch) ==
    [i \in 1..Len(batch) |-> Reply(name, encoding, batch[i])]

----------------------------------------------------------------------------
(* remove_cmd *)

\* for show_cmd in show_cmds: the list iterator keeps a position i, and the
\* body pops from the list it is iterating over.
RECURSIVE remove_cmd_loop(_, _, _)
remove_cmd_loop(e, show_cmds, i) ==
    IF i > Len(show_cmds) THEN show_cmds
    ELSE LET show_cmd == show_cmds[i]
         IN  IF IsSubstr(show_cmd, e)
             THEN remove_cmd_loop(e, ListPop(show_cmds, ListIndex(show_cmds, show_cmd)), i + 1)
             ELSE remove_cmd_loop(e, show_cmds, i + 1)

\* Variant: when the error text names no command of the list, the first
\* command is dropped.
remove_cmd_or_first(e, show_cmds) ==
    LET left == remove_cmd_loop(e, show_cmds, 1)
    IN  IF left = show_cmds /\ show_cmds # << >> THEN Tail(show_cmds) ELSE left
remove_cmd(e, show_cmds) == remove_cmd_loop(e, show_cmds, 1)

----------------------------------------------------------------------------
(* send_cmds *)

\* A call of send_cmds: the list it holds, the activations so far, the
\* batches it has submitted, and how it ended.
NewFrame(show_cmds, encoding) ==
    [show_cmds |-> show_cmds, encoding |-> encoding, depth |-> 1, pc |-> "call",
     show_cmd_list |-> << >>, sent |-> << >>]

\* Faulty variant: remove_cmd narrows a copy of the list, so the first
\* activation returns its own list, narrowed once, with the replies to the
\* last submission.
send_cmds_call_copy(f, name, rejected, down, named) ==
    IF f.depth > RecursionLimit
    THEN [f EXCEPT !.pc = "raised"]
    ELSE LET batch == f.show_cmds
             sent  == Append(f.sent, batch)
         IN  IF down
             THEN [f EXCEPT !.sent = sent, !.depth = @ + 1,
                            !.show_cmds = remove_cmd(DownText, batch)]
             ELSE IF Range(batch) \cap rejected # {}
             THEN [f EXCEPT !.sent = sent, !.depth = @ + 1,
                            !.show_cmds = remove_cmd(ErrText(batch, named), batch)]
             ELSE [f EXCEPT !.sent = sent, !.pc = "returned",
                            !.show_cmds = IF Len(sent) >= 2 THEN sent[2] ELSE batch,
                            !.show_cmd_list = run_commands(name, f.encoding, batch)]
\* One activation of send_cmds on a connection that rejects the commands of
\* `rejected`, naming those of `named`, or is down.
send_cmds_call(f, name, rejected, down, named) ==
    IF f.depth > RecursionLimit
    THEN [f EXCEPT !.pc = "raised"]
    ELSE LET batch == f.show_cmds
             sent  == Append(f.sent, batch)
         IN  IF down
             THEN [f EXCEPT !.sent = sent, !.depth = @ + 1,
                            !.show_cmds = remove_cmd(DownText, batch)]
             ELSE IF Range(batch) \cap rejected # {}
             THEN [f EXCEPT !.sent = sent, !.depth = @ + 1,
                            !.show_cmds = remove_cmd(ErrText(batch, named), batch)]
             ELSE [f EXCEPT !.sent = sent, !.pc = "returned",
                            !.show_cmd_list = run_commands(name, f.encoding, batch)]

\* The error texts a rejection may carry: it names at least one of the
\* rejected commands of the batch.
Namings(batch, rejected) ==
    IF Range(batch) \cap rejected = {} THEN {{}}
    ELSE (SUBSET (Range(batch) \cap rejected)) \ {{}}

send_cmds_next(f, name, rejected, down) ==
    {send_cmds_call(f, name, rejected, down, named) : named \in Namings(f.show_cmds, rejected)}

\* send_cmds run to its end: every way it can return or raise.
RECURSIVE send_cmds(_, _, _, _)
send_cmds(f, name, rejected, down) ==
    IF f.pc # "call" THEN {f}
    ELSE UNION {send_cmds(g, name, rejected, down) : g \in send_cmds_next(f, name, rejected, down)}

----------------------------------------------------------------------------
(* Specification SpecSend: one call of send_cmds on one connection *)

SendName == <<"dut1">>

NoTest == [pc |-> "none"]

NoCall == [pc |-> "idle"]

\* The variables of the parts a specification does not run.
RemoveIdle == rm_call = NoCall
DefsIdle   == td_call = NoCall
RegIdle    == reg_params = << >> /\ reg = NoCall
ShowIdle   == log_params = << >> /\ logs = << >> /\ rsc = NoCall /\ exported = << >>
YamlIdle   == yaml_files = << >> /\ flock = << >> /\ yio = << >>
ToolsIdle  == RemoveIdle /\ DefsIdle /\ RegIdle /\ ShowIdle /\ YamlIdle

InitSend ==
    /\ sc_orig \in CmdLists(MaxCmds)
    /\ \E rejected \in SUBSET Range(sc_orig), down \in BOOLEAN :
          sc_conn = [name |-> SendName, rejected |-> rejected, down |-> down]
    /\ \E encoding \in Encodings : sc_frame = NewFrame(sc_orig, encoding)
    /\ heap = << >>
    /\ duts = << >>
    /\ lpc = "idle"
    /\ task = << >>
    /\ wpc = << >>
    /\ wloc = << >>
    /\ definitions = << >>
    /\ tops = NoTest
    /\ files = << >>
    /\ testlog = << >>
    /\ ToolsIdle

SendCmdsStep ==
    /\ sc_frame.pc = "call"
    /\ sc_frame' \in send_cmds_next(sc_frame, sc_conn.name, sc_conn.rejected, sc_conn.down)
    /\ UNCHANGED <<sc_orig, sc_conn, fanVars, recVars, toolVars>>

NextSend == SendCmdsStep

SpecSend == InitSend /\ [][NextSend]_vars

----------------------------------------------------------------------------
(* Claims about send_cmds *)

Rejecting ==
    /\ ~sc_conn.down
    /\ sc_conn.rejected # {}
    /\ sc_conn.rejected # Range(sc_orig)

\* C1: when the connection rejects a strict non-empty subset of the commands
\* by naming them, send_cmds returns the original list minus exactly the
\* rejected commands, and results for exactly the accepted commands.
C1_Claim ==
    (sc_frame.pc = "returned" /\ Rejecting) =>
        /\ sc_frame.show_cmds = Without(sc_orig, sc_conn.rejected)
        /\ sc_frame.show_cmd_list =
              run_commands(sc_conn.name, sc_frame.encoding, Without(sc_orig, sc_conn.rejected))

\* C19: when send_cmds returns, after any number of narrowing retries, its
\* result list is as long as the command list it returns, and the i-th
\* result is the connection's reply to the i-th command of that list.
C19_Thm ==
    sc_frame.pc = "returned" =>
        /\ Len(sc_frame.show_cmd_list) = Len(sc_frame.show_cmds)
        /\ \A i \in 1..Len(sc_frame.show_cmds) :
              sc_frame.show_cmd_list[i] =
                  Reply(sc_conn.name, sc_frame.encoding, sc_frame.show_cmds[i])

\* A return after two narrowing retries, with commands left.
C19_Witness ==
    /\ sc_frame.pc = "returned"
    /\ Len(sc_frame.sent) >= 3
    /\ Len(sc_frame.show_cmds) >= 1
    /\ Len(sc_frame.show_cmds) < Len(sc_orig)

\* C20: once narrowing has emptied the command list, send_cmds submits
\* nothing further to the connection and returns.
C20_Claim ==
    [][(sc_frame.pc = "call" /\ sc_orig # << >> /\ sc_frame.show_cmds = << >>) =>
          (sc_frame'.sent = sc_frame.sent /\ sc_frame'.pc = "returned")]_vars

\* C21: while the connection keeps failing with an error text that holds
\* none of the pending commands, send_cmds removes nothing and submits the
\* same list again on every retry; it never returns a result, and nothing
\* ends the call but the recursion limit, so the connection's error never
\* reaches the caller.
C21_Thm ==
    sc_conn.down =>
        /\ sc_frame.pc # "returned"
        /\ sc_frame.show_cmds = sc_orig
        /\ \A i \in 1..Len(sc_frame.sent) : sc_frame.sent[i] = sc_orig
        /\ sc_frame.pc = "call" => Len(sc_frame.sent) = sc_frame.depth - 1
        /\ sc_frame.pc = "raised" => Len(sc_frame.sent) = RecursionLimit

\* The same non-empty list submitted at every depth the interpreter allows.
C21_Witness ==
    /\ sc_conn.down
    /\ Len(sc_orig) >= 2
    /\ sc_frame.pc = "raised"
    /\ Len(sc_frame.sent) = RecursionLimit

\* The submissions of the call that failed.
FailedSubmissions ==
    IF sc_frame.pc = "returned" THEN Len(sc_frame.sent) - 1 ELSE Len(sc_frame.sent)

\* C22: every failure whose error text names a pending command leaves a
\* strictly shorter list, so on a connection whose failures all name a
\* pending command and which accepts the empty batch, send_cmds over n
\* commands never runs into the recursion limit and has at most n failed
\* submissions.
C22_Thm ==
    ~sc_conn.down =>
        /\ \A i \in 1..(Len(sc_frame.sent) - 1) :
              Len(sc_frame.sent[i + 1]) < Len(sc_frame.sent[i])
        /\ (sc_frame.sent # << >> /\ sc_frame.pc = "call") =>
              Len(sc_frame.show_cmds) < Len(sc_frame.sent[Len(sc_frame.sent)])
        /\ sc_frame.pc # "raised"
        /\ FailedSubmissions <= Len(sc_orig)

\* A call over n commands that returned after n failed submissions.
C22_Witness ==
    /\ ~sc_conn.down
    /\ sc_frame.pc = "returned"
    /\ Len(sc_orig) = MaxCmds
    /\ FailedSubmissions = Len(sc_orig)

----------------------------------------------------------------------------
(* The fan-out: login_duts, init_duts and dut_worker *)

FanUniverse == {ShowIp, ShowIpRoute, ShowVersion}

\* test_parameters["duts"]: the device descriptors of the definitions.
DutDescriptors ==
    << [name |-> <<"dut1">>,
        neighbors |-> << [port |-> <<"Ethernet1">>, neighborDevice |-> <<"dut2">>,
                          neighborPort |-> <<"Ethernet1">>] >>],
       [name |-> <<"dut2">>, neighbors |-> << >>] >>

InterfaceListKey == <<"interface_list">>

\* The list objects: the shared show_cmds and each worker's copies.
SharedPlace == <<"show_cmds", 0>>
\* Faulty variant: one copy per worker, narrowed by both dispatches.
CopyPlace_one(w, encoding) == <<"copy", w>>
CopyPlace(w, encoding) == <<encoding, w>>

\* Faulty variant: the worker dispatches the shared list itself.
list_copy_alias(src, w, encoding) == src
\* show_cmds.copy(): a new list object holding the same commands.
list_copy(src, w, encoding) == CopyPlace(w, encoding)

RECURSIVE return_interfaces(_, _)
return_interfaces(hostname, descriptors) ==
    IF descriptors = << >> THEN << >>
    ELSE LET dut == Head(descriptors)
         IN  (IF dut.name = hostname
              THEN [n \in 1..Len(dut.neighbors) |->
                      [hostname |-> dut.name,
                       interface_name |-> dut.neighbors[n].port,
                       z_hostname |-> dut.neighbors[n].neighborDevice,
                       z_interface_name |-> dut.neighbors[n].neighborPort,
                       media_type |-> EmptyStr]]
              ELSE << >>)
             \o return_interfaces(hostname, Tail(descriptors))

\* One record per descriptor, in order; no "output" key yet.
login_duts(descriptors) ==
    [i \in 1..Len(descriptors) |->
        [name |-> descriptors[i].name, has_output |-> FALSE, output |-> << >>]]

\* Faulty variant: every worker gets the first record.
submitted_dut_first(i) == 1
\* executor.submit(dut_worker, dut, ...) for dut in duts: the i-th worker
\* gets the i-th record.
submitted_dut(i) == i

\* Faulty variant: shutdown(wait=False).
shutdown_no_wait == TRUE
\* Leaving `with ThreadPoolExecutor(...)` is shutdown(wait=True).
shutdown_wait == \A w \in 1..Len(wpc) : wpc[w] \in {"done", "raised"}

\* Variant: init_duts asks every future for its result().
init_duts_outcome_checked ==
    IF \E w \in 1..Len(wpc) : wpc[w] = "raised" THEN "raised" ELSE "returned"
\* The futures are dropped: no result() is asked for, nothing is re-raised.
init_duts_outcome == "returned"

NoLocals ==
    [json |-> [cmds |-> SharedPlace, list |-> << >>],
     text |-> [cmds |-> SharedPlace, list |-> << >>]]

\* Faulty variant: the else branch of lines 312-313 is missing.
output_entry_no_else(json, text) ==
    IF text = EmptyStr THEN [json |-> json] ELSE [json |-> json, text |-> text]
\* dut["output"][show_cmd] once both branches of lines 290-314 have run.
output_entry(json, text) == [json |-> json, text |-> text]

\* for show_cmd in show_cmds: ... of dut_worker; an index past the end of a
\* result list raises IndexError.
RECURSIVE populate_loop(_, _, _, _, _, _, _)
populate_loop(output, show_cmds, i, cmds_json, list_json, cmds_txt, list_txt) ==
    IF i > Len(show_cmds) THEN [output |-> output, raised |-> FALSE]
    ELSE LET show_cmd == show_cmds[i]
             in_json  == show_cmd \in Range(cmds_json)
             in_txt   == show_cmd \in Range(cmds_txt)
             j_index  == ListIndex(cmds_json, show_cmd)
             t_index  == ListIndex(cmds_txt, show_cmd)
         IN  IF in_json /\ j_index > Len(list_json)
             THEN [output |-> (show_cmd :> << >>) @@ output, raised |-> TRUE]
             ELSE LET json == IF in_json THEN list_json[j_index] ELSE EmptyStr
                  IN  IF in_txt /\ t_index > Len(list_txt)
                      THEN [output |-> (show_cmd :> [json |-> json]) @@ output,
                            raised |-> TRUE]
                      ELSE LET text == IF in_txt THEN list_txt[t_index].output ELSE EmptyStr
                           IN  populate_loop((show_cmd :> output_entry(json, text)) @@ output,
                                             show_cmds, i + 1,
                                             cmds_json, list_json, cmds_txt, list_txt)

InitFan ==
    /\ \E show_cmds \in {l \in ListsUpTo(FanUniverse, MaxShared) : DupFree(l)} :
          heap = (SharedPlace :> show_cmds)
    /\ duts = << >>
    /\ lpc = "login"
    /\ task = << >>
    /\ wpc = << >>
    /\ wloc = << >>

\* init_duts, line 162, over the first n descriptors.  (With no descriptor
\* at all ThreadPoolExecutor(max_workers=0) raises ValueError; the fan-out
\* is modelled for n >= 1.)
LoginDuts ==
    /\ lpc = "login"
    /\ \E n \in 1..Len(DutDescriptors) : duts' = login_duts(SubSeq(DutDescriptors, 1, n))
    /\ lpc' = "submit"
    /\ UNCHANGED <<heap, task, wpc, wloc, sendVars, recVars, toolVars>>

\* init_duts, lines 167-171: one submission.
ExecutorSubmit ==
    /\ lpc = "submit"
    /\ Len(task) < Len(duts)
    /\ task' = Append(task, submitted_dut(Len(task) + 1))
    /\ wpc' = Append(wpc, "start")
    /\ wloc' = Append(wloc, NoLocals)
    /\ UNCHANGED <<heap, duts, lpc, sendVars, recVars, toolVars>>

\* init_duts, lines 167-174: the with block ends and init_duts returns.
InitDutsReturn ==
    /\ lpc = "submit"
    /\ Len(task) = Len(duts)
    /\ shutdown_wait
    /\ lpc' = init_duts_outcome
    /\ UNCHANGED <<heap, duts, task, wpc, wloc, sendVars, recVars, toolVars>>

\* dut_worker, lines 264-267.
DutWorkerBegin(w) ==
    /\ wpc[w] = "start"
    /\ LET r == task[w]
       IN  duts' = [duts EXCEPT ![r].has_output = TRUE,
                                ![r].output = (InterfaceListKey :>
                                    return_interfaces(duts[r].name,
                                                      SubSeq(DutDescriptors, 1, Len(duts))))]
    /\ wpc' = [wpc EXCEPT ![w] = "json"]
    /\ UNCHANGED <<heap, lpc, task, wloc, sendVars, recVars, toolVars>>

\* dut_worker, lines 273-274 (json) and 277-278 (text): copy the shared
\* list and dispatch the copy; remove_cmd changes the copy in place.
DutWorkerSend(w, encoding) ==
    /\ wpc[w] = encoding
    /\ LET dst   == list_copy(SharedPlace, w, encoding)
           heap1 == (dst :> heap[SharedPlace]) @@ heap
       IN  \E rejected \in SUBSET Range(heap1[dst]), down \in BOOLEAN :
           \E f \in send_cmds(NewFrame(heap1[dst], encoding), duts[task[w]].name, rejected, down) :
              /\ heap' = [heap1 EXCEPT ![dst] = f.show_cmds]
              /\ wloc' = [wloc EXCEPT ![w][encoding] = [cmds |-> dst, list |-> f.show_cmd_list]]
              /\ wpc' = [wpc EXCEPT ![w] =
                            IF f.pc = "raised" THEN "raised"
                            ELSE IF encoding = "json" THEN "text" ELSE "populate"]
    /\ UNCHANGED <<duts, lpc, task, sendVars, recVars, toolVars>>

\* dut_worker, lines 281-316.
DutWorkerPopulate(w) ==
    /\ wpc[w] = "populate"
    /\ LET r   == task[w]
           res == populate_loop(duts[r].output, heap[SharedPlace], 1,
                                heap[wloc[w].json.cmds], wloc[w].json.list,
                                heap[wloc[w].text.cmds], wloc[w].text.list)
       IN  /\ duts' = [duts EXCEPT ![r].output = res.output]
           /\ wpc' = [wpc EXCEPT ![w] = IF res.raised THEN "raised" ELSE "done"]
    /\ UNCHANGED <<heap, lpc, task, wloc, sendVars, recVars, toolVars>>

Init ==
    /\ InitFan
    /\ sc_orig = << >>
    /\ sc_conn = [name |-> SendName, rejected |-> {}, down |-> FALSE]
    /\ sc_frame = [NewFrame(<< >>, "json") EXCEPT !.pc = "idle"]
    /\ definitions = << >>
    /\ tops = NoTest
    /\ files = << >>
    /\ testlog = << >>
    /\ ToolsIdle

Next ==
    \/ LoginDuts
    \/ ExecutorSubmit
    \/ InitDutsReturn
    \/ \E w \in 1..Len(wpc) : DutWorkerBegin(w)
    \/ \E w \in 1..Len(wpc), encoding \in Encodings : DutWorkerSend(w, encoding)
    \/ \E w \in 1..Len(wpc) : DutWorkerPopulate(w)

Spec == Init /\ [][Next]_vars

----------------------------------------------------------------------------
(* Claims about the fan-out *)

Returned == lpc = "returned"

Finished(w) == wpc[w] \in {"done", "raised"}

BothKeys(r) ==
    \A show_cmd \in Range(heap[SharedPlace]) :
        /\ show_cmd \in DOMAIN duts[r].output
        /\ DOMAIN duts[r].output[show_cmd] = {"json", "text"}

\* The record's table holds interface_list and one full entry per command.
Populated(r) ==
    /\ duts[r].has_output
    /\ DOMAIN duts[r].output = Range(heap[SharedPlace]) \cup {InterfaceListKey}
    /\ BothKeys(r)

AllSubmitted == lpc = "submit" /\ Len(task) = Len(duts)

\* C3 as stated: init_duts does not wait for its workers, so once every
\* worker is submitted it can return while one of them is still running.
C3_Original ==
    (AllSubmitted /\ \E w \in 1..Len(wpc) : ~Finished(w)) => ENABLED InitDutsReturn

\* C3 amended: init_duts never looks at its workers' outcomes, but leaving
\* the with block waits for them: when it returns every worker has finished
\* or raised, and a record is incompletely populated only if its worker
\* raised.
C3_Amended ==
    Returned =>
        \A w \in 1..Len(wpc) :
            /\ Finished(w)
            /\ ~Populated(task[w]) => wpc[w] = "raised"

C3_Witness ==
    /\ Returned
    /\ \E w \in 1..Len(wpc) : wpc[w] = "raised" /\ ~Populated(task[w])

WorkerStep(w) ==
    \/ DutWorkerBegin(w)
    \/ DutWorkerSend(w, "json")
    \/ DutWorkerSend(w, "text")
    \/ DutWorkerPopulate(w)

\* C4: a worker that raises is not reported by init_duts, which returns the
\* full device list normally; it stops no other worker, and every worker
\* that does not raise completes and populates its record.
C4_Thm ==
    /\ lpc # "raised"
    /\ \A w \in 1..Len(wpc) : ~Finished(w) => ENABLED WorkerStep(w)
    /\ Returned =>
          /\ Len(task) = Len(duts)
          /\ \A r \in 1..Len(duts) : duts[r].name = DutDescriptors[r].name
          /\ \A w \in 1..Len(wpc) :
                wpc[w] # "raised" => (wpc[w] = "done" /\ Populated(task[w]))

C4_Witness ==
    /\ Returned
    /\ \E w1, w2 \in 1..Len(wpc) :
          /\ wpc[w1] = "raised"
          /\ wpc[w2] = "done"
          /\ Populated(task[w2])

\* C9: each record is handed to exactly one worker, and a record changes
\* only in a step of that one worker.
C9_Thm ==
    /\ [](\A w1, w2 \in 1..Len(task) : task[w1] = task[w2] => w1 = w2)
    /\ [][\A r \in 1..Len(duts) :
            duts'[r] # duts[r] =>
                \E w \in 1..Len(task) :
                    /\ task[w] = r
                    /\ wpc'[w] # wpc[w]
                    /\ \A w2 \in 1..Len(task) : w2 # w => wpc'[w2] = wpc[w2]]_vars

C9_Witness ==
    /\ Returned
    /\ Len(duts) = 2
    /\ \A w \in 1..Len(wpc) : wpc[w] = "done"
    /\ duts[1].output # duts[2].output

\* C10: no step of the fan-out changes the shared command list.
C10_Thm == [][heap'[SharedPlace] = heap[SharedPlace]]_vars

C10_Witness ==
    /\ Returned
    /\ Len(heap[SharedPlace]) = 2
    /\ \E w1, w2 \in 1..Len(wpc) :
          /\ w1 # w2
          /\ wpc[w1] = "done"
          /\ wpc[w2] = "done"
          /\ Len(heap[CopyPlace(w1, "json")]) < Len(heap[SharedPlace])
          /\ Len(heap[CopyPlace(w2, "text")]) < Len(heap[SharedPlace])

\* The commands left in the worker's copy for one encoding.
Survived(w, encoding) == Range(heap[CopyPlace(w, encoding)])

\* Every entry of a completed worker's table holds, per encoding, the
\* connection's answer to its command if the command is left in that
\* encoding's list, and the empty string otherwise.
EntriesByEncoding ==
    \A w \in 1..Len(wpc) :
        wpc[w] = "done" =>
            \A c \in Range(heap[SharedPlace]) :
                LET dut == duts[task[w]]
                IN  /\ dut.output[c].json =
                          IF c \in Survived(w, "json")
                          THEN Reply(dut.name, "json", c) ELSE EmptyStr
                    /\ dut.output[c].text =
                          IF c \in Survived(w, "text")
                          THEN Reply(dut.name, "text", c).output ELSE EmptyStr

\* C23: dut_worker narrows the two encodings independently: the text
\* dispatch leaves the list narrowed for json as it is, and for every
\* command of the command set the json entry is the structured result if the
\* command survived the json narrowing and '' otherwise, the text entry the
\* text output if it survived the text narrowing and '' otherwise.
C23_Thm ==
    /\ []EntriesByEncoding
    /\ [][\A w \in 1..Len(wpc) :
            wpc[w] \in {"text", "populate"} =>
                heap'[CopyPlace(w, "json")] = heap[CopyPlace(w, "json")]]_vars

\* A completed worker with one command answered in text only and another
\* answered in json only.
C23_Witness ==
    \E w \in 1..Len(wpc) :
        /\ wpc[w] = "done"
        /\ \E c, d \in Range(heap[SharedPlace]) :
              /\ c \notin Survived(w, "json") /\ c \in Survived(w, "text")
              /\ duts[task[w]].output[c].json = EmptyStr
              /\ duts[task[w]].output[c].text # EmptyStr
              /\ d \in Survived(w, "json") /\ d \notin Survived(w, "text")
              /\ duts[task[w]].output[d].json # EmptyStr
              /\ duts[task[w]].output[d].text = EmptyStr

----------------------------------------------------------------------------
(* The test definitions, TestOps and the test cases of tests/ *)

ShowNtp == <<"show", " ", "ntp", " ", "status">>

\* TEST_SUITE = __file__ of each test module.
PathA      == <<"tests", "/", "a", "/", "test_a.py">>
PathB      == <<"tests", "/", "b", "/", "test_b.py">>
PathNtp    == <<"tests", "/", "ntp", "/", "test_ntp.py">>
PathMemory == <<"tests", "/", "memory", "/", "test_memory.py">>

\* The loaded definitions: two suites written against TestOps, which both
\* have a test case test_x, and the ntp and memory suites of tests/.
TestDefinitions ==
    << [name |-> <<"test_a.py">>,
        testcases |-> << [name |-> <<"test_x">>, show_cmd |-> ShowVersion, expected_output |-> 1],
                         [name |-> <<"test_y">>, show_cmd |-> ShowIp, expected_output |-> 1] >>],
       [name |-> <<"test_b.py">>,
        testcases |-> << [name |-> <<"test_x">>, show_cmd |-> ShowIp, expected_output |-> 2] >>],
       [name |-> <<"test_ntp.py">>,
        testcases |-> << [name |-> <<"test_if_ntp_is_synchronized_on_">>,
                          show_cmd |-> ShowNtp, expected_output |-> TRUE] >>],
       [name |-> <<"test_memory.py">>,
        testcases |-> << [name |-> <<"test_memory_utilization_on_">>,
                          show_cmd |-> ShowVersion, expected_output |-> 70] >>] >>

\* The test functions written against TestOps: module and function name.
TestOpsTests ==
    { [suite |-> PathA, case |-> <<"test_x">>],
      [suite |-> PathA, case |-> <<"test_y">>],
      [suite |-> PathB, case |-> <<"test_x">>] }

\* The dut fixture: populated device records.
DutFixtures ==
    { [name |-> n, output |-> [c \in CmdUniverse \cup {ShowNtp} |-> [json |-> EmptyStr, text |-> EmptyStr]]]
        : n \in {<<"dut1">>, <<"dut", "-", "2">>} }

\* The functions tests_tools.py defines at module level.
ToolsFunctions ==
    {"init_show_log", "import_yaml", "return_dut_list", "init_duts", "login_duts",
     "send_cmds", "remove_cmd", "dut_worker", "return_show_cmd", "return_interfaces",
     "export_logs", "get_parameters", "verify_show_cmd", "verify_tacacs", "verify_veos",
     "generate_interface_list", "yaml_io", "return_show_cmds", "return_test_defs",
     "export_yaml"}

\* test_suite.split("/")[-1]
BaseName(path) ==
    LET slashes == {i \in 1..Len(path) : path[i] = "/"}
    IN  IF slashes = {} THEN path
        ELSE SubSeq(path, (CHOOSE i \in slashes : \A j \in slashes : j <= i) + 1, Len(path))

\* The first position of l whose name is `name`, 0 when there is none.
FirstNamed(l, name) ==
    IF \E i \in 1..Len(l) : l[i].name = name
    THEN CHOOSE i \in 1..Len(l) : l[i].name = name /\ \A j \in 1..(i - 1) : l[j].name # name
    ELSE 0

\* get_parameters: the place, in the definitions, of the test case's
\* parameters (suite_parameters[0], case_parameters[0]).
get_parameters(tests_parameters, test_suite, test_case) ==
    LET si == FirstNamed(tests_parameters, BaseName(test_suite))
    IN  <<si, FirstNamed(tests_parameters[si].testcases, test_case)>>

\* Faulty variant: the suite name is written on every test case of the suite.
get_parameters_effect_all(tests_parameters, test_suite, test_case) ==
    LET ref == get_parameters(tests_parameters, test_suite, test_case)
    IN  [tests_parameters EXCEPT ![ref[1]].testcases =
            [c \in 1..Len(@) |-> [test_suite |-> BaseName(test_suite)] @@ @[c]]]
\* case_parameters[0]["test_suite"] = test_suite
get_parameters_effect(tests_parameters, test_suite, test_case) ==
    LET ref == get_parameters(tests_parameters, test_suite, test_case)
    IN  [tests_parameters EXCEPT ![ref[1]].testcases[ref[2]] =
            [test_suite |-> BaseName(test_suite)] @@ @]

\* Variant: only a command with text output counts as executed.
verify_show_cmd_text(show_cmd, dut) ==
    /\ show_cmd \in DOMAIN dut.output
    /\ "text" \in DOMAIN dut.output[show_cmd]
    /\ dut.output[show_cmd].text # EmptyStr
verify_show_cmd(show_cmd, dut) == show_cmd \in DOMAIN dut.output

\* f"../reports/results/result-{test_case}-{dut_name}.yml"
ResultFile(test_case, dut_name) ==
    <<"../reports/results/result-">> \o test_case \o <<"-">> \o dut_name \o <<".yml">>

\* Faulty variant: open(yaml_file, "a").
export_yaml_append(fs, yaml_file, yaml_data) ==
    IF yaml_file \in DOMAIN fs
    THEN [fs EXCEPT ![yaml_file] = Append(@, yaml_data)]
    ELSE (yaml_file :> <<yaml_data>>) @@ fs
\* open(yaml_file, "w") and yaml.dump: the file holds this one document.
export_yaml(fs, yaml_file, yaml_data) == (yaml_file :> <<yaml_data>>) @@ fs

\* TestOps.post_testcase, lines 733-742: the parameters as written back.
post_testcase(self, test_parameters) ==
    LET set == [comment |-> self.comment,
                test_result |-> self.test_result,
                output_msg |-> self.output_msg,
                expected_output |-> self.expected_output,
                actual_output |-> self.actual_output,
                dut |-> self.dut_name] @@ test_parameters
    IN  [fail_reason |-> IF ~set.test_result THEN self.output_msg ELSE EmptyStr] @@ set

Params(ref) == definitions[ref[1]].testcases[ref[2]]

InitRec ==
    /\ definitions = TestDefinitions
    /\ tops = NoTest
    /\ files = << >>
    /\ testlog = << >>
    /\ sc_orig = << >>
    /\ sc_conn = [name |-> SendName, rejected |-> {}, down |-> FALSE]
    /\ sc_frame = [NewFrame(<< >>, "json") EXCEPT !.pc = "idle"]
    /\ heap = << >>
    /\ duts = << >>
    /\ lpc = "idle"
    /\ task = << >>
    /\ wpc = << >>
    /\ wloc = << >>
    /\ ToolsIdle

\* TestOps.__init__
TestOpsInit(t, dut) ==
    /\ tops.pc = "none"
    /\ Len(testlog) < MaxRuns
    /\ LET ref  == get_parameters(definitions, t.suite, t.case)
           defs == get_parameters_effect(definitions, t.suite, t.case)
           test_parameters == defs[ref[1]].testcases[ref[2]]
           show_cmd == test_parameters.show_cmd
       IN  /\ definitions' = defs
           /\ IF show_cmd # EmptyStr /\ ~verify_show_cmd(show_cmd, dut)
              THEN /\ tops' = NoTest
                   /\ testlog' = Append(testlog,
                          [kind |-> "TestOps", suite |-> BaseName(t.suite), case |-> t.case,
                           dut |-> dut.name, outcome |-> "failed"])
              ELSE /\ tops' = [pc |-> "constructed", ref |-> ref, test_case |-> t.case,
                               expected_output |-> test_parameters.expected_output,
                               dut_name |-> dut.name, show_cmd |-> show_cmd,
                               comment |-> EmptyStr, output_msg |-> EmptyStr,
                               test_result |-> FALSE, actual_output |-> 0]
                   /\ testlog' = testlog
    /\ UNCHANGED <<files, sendVars, fanVars, toolVars>>

\* The body of a test case written against TestOps: it sets actual_output
\* and test_result, and may set output_msg.
TestOpsBody ==
    /\ tops.pc = "constructed"
    /\ \E actual_output \in {tops.expected_output, tops.expected_output + 1},
          output_msg \in {EmptyStr, <<"unexpected output">>} :
          tops' = [tops EXCEPT !.pc = "ran",
                               !.actual_output = actual_output,
                               !.test_result = (actual_output = tops.expected_output),
                               !.output_msg = output_msg]
    /\ UNCHANGED <<definitions, files, testlog, sendVars, fanVars, toolVars>>

\* TestOps.post_testcase and TestOps._write_results
PostTestcase ==
    /\ tops.pc = "ran"
    /\ LET test_parameters == post_testcase(tops, Params(tops.ref))
           yaml_file == ResultFile(test_parameters.name, test_parameters.dut)
       IN  /\ definitions' = [definitions EXCEPT
                                 ![tops.ref[1]].testcases[tops.ref[2]] = test_parameters]
           /\ files' = export_yaml(files, yaml_file, test_parameters)
    /\ tops' = [tops EXCEPT !.pc = "posted"]
    /\ UNCHANGED <<testlog, sendVars, fanVars, toolVars>>

\* The test case's closing assertion.
TestOpsAssert ==
    /\ tops.pc = "posted"
    /\ testlog' = Append(testlog,
           [kind |-> "TestOps", suite |-> Params(tops.ref).test_suite, case |-> tops.test_case,
            dut |-> tops.dut_name,
            outcome |-> IF tops.test_result THEN "passed" ELSE "failed"])
    /\ tops' = NoTest
    /\ UNCHANGED <<definitions, files, sendVars, fanVars, toolVars>>

NtpCase == <<"test_if_ntp_is_synchronized_on_">>
MemoryCase == <<"test_memory_utilization_on_">>

\* NTPTests.test_if_ntp_is_synchronized_on_
NtpSynchronizedTest(dut, show_cmd_txt) ==
    /\ tops.pc = "none"
    /\ Len(testlog) < MaxRuns
    /\ LET ref  == get_parameters(definitions, PathNtp, NtpCase)
           defs == get_parameters_effect(definitions, PathNtp, NtpCase)
           test_parameters == defs[ref[1]].testcases[ref[2]]
           expected_output == test_parameters.expected_output
           verified == verify_show_cmd(test_parameters.show_cmd, dut)
           actual_output == IsSubstr(<<"synchronised">>, show_cmd_txt)
       IN  /\ definitions' = defs
           /\ testlog' = Append(testlog,
                  [kind |-> "tests", suite |-> BaseName(PathNtp), case |-> NtpCase,
                   dut |-> dut.name,
                   outcome |-> IF verified /\ actual_output = expected_output
                               THEN "passed" ELSE "failed"])
    /\ UNCHANGED <<tops, files, sendVars, fanVars, toolVars>>

\* MemoryTests.test_memory_utilization_on_: the attribute write_results is
\* looked up in tests_tools before the closing assertion is reached, and
\* the lookup of a name the module does not define raises AttributeError.
MemoryUtilizationTest(dut, actual_output) ==
    /\ tops.pc = "none"
    /\ Len(testlog) < MaxRuns
    /\ LET ref  == get_parameters(definitions, PathMemory, MemoryCase)
           defs == get_parameters_effect(definitions, PathMemory, MemoryCase)
           test_parameters == defs[ref[1]].testcases[ref[2]]
           expected_output == test_parameters.expected_output
           verified == verify_show_cmd(test_parameters.show_cmd, dut)
           test_result == actual_output < expected_output
       IN  /\ definitions' = defs
           /\ testlog' = Append(testlog,
                  [kind |-> "tests", suite |-> BaseName(PathMemory), case |-> MemoryCase,
                   dut |-> dut.name,
                   outcome |-> IF ~verified THEN "failed"
                               ELSE IF "write_results" \notin ToolsFunctions THEN "error"
                               ELSE IF test_result THEN "passed" ELSE "failed"])
    /\ UNCHANGED <<tops, files, sendVars, fanVars, toolVars>>

NtpTexts == { <<"synchronised", " to NTP server">>, <<"unsynchronised">> }

NextRec ==
    \/ \E t \in TestOpsTests, dut \in DutFixtures : TestOpsInit(t, dut)
    \/ TestOpsBody
    \/ PostTestcase
    \/ TestOpsAssert
    \/ \E dut \in DutFixtures, show_cmd_txt \in NtpTexts : NtpSynchronizedTest(dut, show_cmd_txt)
    \/ \E dut \in DutFixtures, actual_output \in {50, 90} : MemoryUtilizationTest(dut, actual_output)

SpecRec == InitRec /\ [][NextRec]_vars

----------------------------------------------------------------------------
(* Claims about the result records *)

\* C5: in every result record written by post_testcase, fail_reason is the
\* empty string if and only if test_result is true.
C5_Claim ==
    \A f \in DOMAIN files : \A i \in 1..Len(files[f]) :
        (files[f][i].fail_reason = EmptyStr) <=> files[f][i].test_result

\* C6: every finished run of a test case of tests/ has left a result record
\* for its (test case, device), whose test_result tells whether the
\* expectation was met, with fail_reason populated when it was not.
C6_Claim ==
    \A i \in 1..Len(testlog) :
        testlog[i].kind = "tests" =>
            LET yaml_file == ResultFile(testlog[i].case, testlog[i].dut)
            IN  /\ yaml_file \in DOMAIN files
                /\ files[yaml_file][1].test_result = (testlog[i].outcome = "passed")
                /\ testlog[i].outcome # "passed" => files[yaml_file][1].fail_reason # EmptyStr

SameTest(doc1, doc2) ==
    /\ doc1.test_suite = doc2.test_suite
    /\ doc1.name = doc2.name
    /\ doc1.dut = doc2.dut

\* C7: a result file is only ever rewritten with a record of the same
\* (suite, test case, device): no record overwrites another pair's record.
C7_Claim ==
    [][\A f \in DOMAIN files :
          files'[f] # files[f] => SameTest(files[f][Len(files[f])], files'[f][Len(files'[f])])]_vars

\* C8: writing a result record leaves its file holding that record alone,
\* whether or not the file existed, and leaves every other file as it was;
\* so writing the record the file already holds changes nothing.
C8_Thm ==
    /\ [](\A f \in DOMAIN files : Len(files[f]) = 1)
    /\ [][(tops.pc = "ran" /\ tops'.pc = "posted") =>
            LET written   == definitions'[tops.ref[1]].testcases[tops.ref[2]]
                yaml_file == ResultFile(written.name, written.dut)
            IN  /\ files'[yaml_file] = <<written>>
                /\ \A f \in DOMAIN files : f # yaml_file => files'[f] = files[f]
                /\ (yaml_file \in DOMAIN files /\ files[yaml_file] = <<written>>)
                      => files' = files]_vars

\* The same (test case, device) was run twice with different results, and
\* the file holds the second record.
C8_Witness ==
    /\ Len(testlog) = 2
    /\ testlog[1].kind = "TestOps"
    /\ testlog[2].kind = "TestOps"
    /\ testlog[1].suite = testlog[2].suite
    /\ testlog[1].case = testlog[2].case
    /\ testlog[1].dut = testlog[2].dut
    /\ testlog[1].outcome = "failed"
    /\ testlog[2].outcome = "passed"
    /\ files[ResultFile(testlog[2].case, testlog[2].dut)][1].test_result

\* The fields the claim lets test cases write, and the fields the test
\* cases' steps are found to write.
ClaimedFields == {"comment", "result", "fail_reason"}
LookupFields  == {"test_suite"}
PostFields    == {"comment", "test_result", "output_msg", "expected_output",
                  "actual_output", "dut", "fail_reason"}

\* The places <<suite, test case>> of the definitions.
CasePlaces(defs) ==
    UNION {{<<s, c>> : c \in 1..Len(defs[s].testcases)} : s \in 1..Len(defs)}

\* new is old but for the fields of `fields`, which may be set or added.
SameBut(old, new, fields) ==
    /\ DOMAIN old \subseteq DOMAIN new
    /\ DOMAIN new \ DOMAIN old \subseteq fields
    /\ \A k \in DOMAIN old \ fields : new[k] = old[k]

\* C11 as stated: but for comment, result and fail_reason, every test case
\* of the definitions stays as it was loaded.
C11_Original ==
    /\ Len(definitions) = Len(TestDefinitions)
    /\ \A ref \in CasePlaces(TestDefinitions) :
          SameBut(TestDefinitions[ref[1]].testcases[ref[2]], Params(ref), ClaimedFields)

\* C11 amended: a parameter lookup (get_parameters, TestOps construction)
\* adds only test_suite, and only to the test case it looks up;
\* post_testcase sets only comment, test_result, output_msg,
\* expected_output, actual_output, dut and fail_reason, and only of its own
\* test case; no step changes another field or another test case, or adds
\* or removes a suite or a test case.
C11_Amended ==
    [][/\ Len(definitions') = Len(definitions)
       /\ \A s \in 1..Len(definitions) :
             /\ definitions'[s].name = definitions[s].name
             /\ Len(definitions'[s].testcases) = Len(definitions[s].testcases)
       /\ \A ref \in CasePlaces(definitions) :
             LET old == Params(ref)
                 new == definitions'[ref[1]].testcases[ref[2]]
             IN  /\ SameBut(old, new, IF tops.pc = "ran" THEN PostFields ELSE LookupFields)
                 /\ (new # old /\ tops.pc = "ran") => ref = tops.ref
                 /\ \A ref2 \in CasePlaces(definitions) :
                       (new # old /\ definitions'[ref2[1]].testcases[ref2[2]] # Params(ref2))
                           => ref2 = ref]_vars

\* A run on one device starts on parameters that still hold what the run on
\* another device wrote.
C11_Witness ==
    /\ tops.pc = "constructed"
    /\ "dut" \in DOMAIN Params(tops.ref)
    /\ Params(tops.ref).dut # tops.dut_name
    /\ Params(tops.ref).test_result

----------------------------------------------------------------------------
(* Claims about the fan-out as the test cases see it *)

\* TestOps.__init__, lines 695-696: construction with a show_cmd fails on
\* the assertion of _verify_show_cmd.
TestOpsFails(show_cmd, dut) == show_cmd # EmptyStr /\ ~verify_show_cmd(show_cmd, dut)

\* C24: a worker that raised in a dispatch leaves a table holding
\* interface_list and no command, so verify_show_cmd and the construction
\* of TestOps fail for every command on that device; after a worker that
\* completed, verify_show_cmd succeeds for every command of the command
\* set, also for one the device rejected in both encodings.
C24_Thm ==
    \A w \in 1..Len(wpc), c \in Range(heap[SharedPlace]) :
        LET dut == duts[task[w]]
        IN  /\ wpc[w] = "raised" =>
                  /\ DOMAIN dut.output = {InterfaceListKey}
                  /\ ~verify_show_cmd(c, dut)
                  /\ TestOpsFails(c, dut)
            /\ wpc[w] = "done" =>
                  /\ verify_show_cmd(c, dut)
                  /\ ~TestOpsFails(c, dut)

\* After init_duts, one device whose worker raised and one whose worker
\* completed with a command left in neither encoding's list.
C24_Witness ==
    /\ Returned
    /\ \E w \in 1..Len(wpc) : wpc[w] = "raised" /\ heap[SharedPlace] # << >>
    /\ \E w \in 1..Len(wpc) :
          /\ wpc[w] = "done"
          /\ \E c \in Range(heap[SharedPlace]) :
                /\ c \notin Survived(w, "json") \cup Survived(w, "text")
                /\ duts[task[w]].output[c] = output_entry(EmptyStr, EmptyStr)

----------------------------------------------------------------------------
(* Specification SpecRemove: one call of remove_cmd *)

\* The other parts of the model, which the tool functions leave alone.
coreVars == <<sendVars, fanVars, recVars>>

CoreIdle ==
    /\ sc_orig = << >>
    /\ sc_conn = [name |-> SendName, rejected |-> {}, down |-> FALSE]
    /\ sc_frame = [NewFrame(<< >>, "json") EXCEPT !.pc = "idle"]
    /\ heap = << >>
    /\ duts = << >>
    /\ lpc = "idle"
    /\ task = << >>
    /\ wpc = << >>
    /\ wloc = << >>
    /\ tops = NoTest
    /\ files = << >>
    /\ testlog = << >>

\* str(e) of the errors handed to remove_cmd: rejections naming any commands,
\* and the failure that names none.
RemoveErrors == {ErrText(l, Range(l)) : l \in CmdLists(MaxCmds)} \cup {DownText}

InitRemove ==
    /\ \E e \in RemoveErrors, show_cmds \in CmdLists(MaxCmds) :
          rm_call = [pc |-> "call", e |-> e, show_cmds |-> show_cmds, ret |-> << >>]
    /\ CoreIdle
    /\ definitions = << >>
    /\ DefsIdle /\ RegIdle /\ ShowIdle /\ YamlIdle

RemoveCmd ==
    /\ rm_call.pc = "call"
    /\ rm_call' = [rm_call EXCEPT !.pc = "returned",
                                  !.ret = remove_cmd(rm_call.e, rm_call.show_cmds)]
    /\ UNCHANGED <<coreVars, defVars, regVars, showVars, yamlVars>>

NextRemove == RemoveCmd

SpecRemove == InitRemove /\ [][NextRemove]_vars

\* The commands of the list that occur in the text.
OccurIn(show_cmds, e) == {show_cmd \in Range(show_cmds) : IsSubstr(show_cmd, e)}

\* C18: one call of remove_cmd returns the list without every command that
\* occurs in the error message, and with every command that does not.
C18_Claim ==
    rm_call.pc = "returned" =>
        rm_call.ret = Without(rm_call.show_cmds, OccurIn(rm_call.show_cmds, rm_call.e))

----------------------------------------------------------------------------
(* Specification SpecReg: building the device registry from the definitions *)

MaxDuts == 3          \* most devices in the definitions handed to the registry

RegNames == {<<"dut1">>, <<"dut2">>, <<"dut3">>}

\* A device descriptor of the definitions, as far as login_duts reads it.
RegDescriptor(name) ==
    [name |-> name, mgmt_ip |-> <<"ip-">> \o name, username |-> <<"admin">>]

EapiFile == <<"eapi.conf">>

\* The definitions: a dict that always has "parameters" and may have "duts".
RegDefinitions ==
    {("parameters" :> [eapi_file |-> EapiFile])}
    \cup {("parameters" :> [eapi_file |-> EapiFile]) @@ ("duts" :> descriptors) :
             descriptors \in ListsUpTo({RegDescriptor(n) : n \in RegNames}, MaxDuts)}

\* A call of a registry function: what it has built, the connections it
\* has asked for, the errors it has printed and logged, and how it ended.
RegCall(fn, pc) ==
    [fn |-> fn, pc |-> pc, logins |-> << >>, connections |-> << >>,
     loaded |-> << >>, reported |-> << >>]

InitReg ==
    /\ reg_params \in RegDefinitions
    /\ reg = RegCall("none", "start")
    /\ CoreIdle
    /\ definitions = << >>
    /\ RemoveIdle /\ DefsIdle /\ ShowIdle /\ YamlIdle

\* return_dut_list, lines 127-138.
ReturnDutList ==
    /\ reg.pc = "start"
    /\ reg' = IF "duts" \in DOMAIN reg_params
              THEN [RegCall("return_dut_list", "returned") EXCEPT
                       !.logins = [i \in 1..Len(reg_params["duts"]) |-> reg_params["duts"][i].name]]
              ELSE [RegCall("return_dut_list", "exit") EXCEPT
                       !.reported = << <<">>> NO DUTS CONFIGURED">>, <<"NO DUTS CONFIGURED">>,
                                       <<"EXITING TEST RUNNER">> >>]
    /\ UNCHANGED <<reg_params, coreVars, rmVars, defVars, showVars, yamlVars>>

\* init_duts, line 162, and login_duts, lines 188-191: the subscript
\* test_parameters["duts"] raises KeyError when the key is absent, and
\* init_duts lets it through.
LoginDutsBegin ==
    /\ reg.pc = "start"
    /\ reg' = IF "duts" \in DOMAIN reg_params
              THEN [RegCall("login_duts", "connect") EXCEPT
                       !.loaded = <<reg_params["parameters"].eapi_file>>]
              ELSE RegCall("login_duts", "raised")
    /\ UNCHANGED <<reg_params, coreVars, rmVars, defVars, showVars, yamlVars>>

\* login_duts, lines 192-201: one turn of the loop.
LoginDutsConnect ==
    /\ reg.pc = "connect"
    /\ Len(reg.logins) < Len(reg_params["duts"])
    /\ LET dut == reg_params["duts"][Len(reg.logins) + 1]
       IN  reg' = [reg EXCEPT
                      !.connections = Append(@, dut.name),
                      !.logins = Append(@, [connection |-> <<"connection to ">> \o dut.name,
                                            name |-> dut.name, mgmt_ip |-> dut.mgmt_ip,
                                            username |-> dut.username])]
    /\ UNCHANGED <<reg_params, coreVars, rmVars, defVars, showVars, yamlVars>>

\* login_duts, lines 203-204.
LoginDutsReturn ==
    /\ reg.pc = "connect"
    /\ Len(reg.logins) = Len(reg_params["duts"])
    /\ reg' = [reg EXCEPT !.pc = "returned"]
    /\ UNCHANGED <<reg_params, coreVars, rmVars, defVars, showVars, yamlVars>>

NextReg ==
    \/ ReturnDutList
    \/ LoginDutsBegin
    \/ LoginDutsConnect
    \/ LoginDutsReturn

SpecReg == InitReg /\ [][NextReg]_vars

\* C12: with no "duts" key in the definitions, a registry function ends by
\* reporting the error and exiting the process, having asked for no
\* connection.
C12_Claim ==
    ("duts" \notin DOMAIN reg_params /\ reg.pc # "start") =>
        /\ reg.pc = "exit"
        /\ reg.reported # << >>
        /\ reg.connections = << >>

----------------------------------------------------------------------------
(* Specification SpecShow: return_show_cmd and the show-command log *)

MaxCalls == 2         \* calls of return_show_cmd in one session

ShowOutputLog == <<"show_output.log">>
ShowLogPaths  == {ShowOutputLog, <<"logs/show.log">>}

\* LOG_FILE of tests/filesystem/test_filesystem.py.
LOG_FILE == [parameters |-> [show_log |-> ShowOutputLog]]

\* show_cmd = f"show file information {file_name}"
ShowFile(file_name) == <<"show file information ">> \o file_name
FileNames == {<<"flash:startup-config">>, <<"flash:zerotouch-config">>}

FilesystemCase == <<"test_if_files_on_">>

ShowDuts == {<<"dut1">>, <<"dut2">>}

\* show_output_text[0]["output"] of an answered command.
RawText(name, show_cmd) == <<"output of ">> \o show_cmd \o <<" on ">> \o name

\* f"\ntest_suite::{test_name}[{hostname}]:\n{output}"
LogBlock(test_name, hostname, output) ==
    <<"\n", "test_suite::">> \o test_name \o <<"[">> \o hostname \o <<"]:", "\n">> \o output

\* init_show_log: open(log_file, "w") leaves the file empty.
init_show_log(fs, test_parameters) ==
    (test_parameters.parameters.show_log :> << >>) @@ fs

\* export_logs: open(show_log, "a") and one write.
export_logs(fs, test_name, hostname, output, test_parameters) ==
    LET show_log == test_parameters.parameters.show_log
        before   == IF show_log \in DOMAIN fs THEN fs[show_log] ELSE << >>
    IN  (show_log :> before \o LogBlock(test_name, hostname, output)) @@ fs

\* A call of return_show_cmd: its arguments, what it has submitted to the
\* connection and how each submission ended, the sleeps it has made, and
\* the exception it ended with (the number of the submission that raised it).
ShowCall(pc, calls) ==
    [pc |-> pc, calls |-> calls, show_cmd |-> << >>, name |-> << >>, test_name |-> << >>,
     test_parameters |-> LOG_FILE, submitted |-> << >>, slept |-> 0,
     raw_text |-> << >>, raised |-> 0]

InitShow ==
    /\ \E show_log \in ShowLogPaths : log_params = [parameters |-> [show_log |-> show_log]]
    /\ logs \in {<< >>, [f \in ShowLogPaths |-> <<"\n", "an earlier session">>]}
    /\ rsc = ShowCall("uninit", 0)
    /\ exported = << >>
    /\ CoreIdle
    /\ definitions = << >>
    /\ RemoveIdle /\ DefsIdle /\ RegIdle /\ YamlIdle

\* init_show_log(test_parameters) on the definitions, at the session's start.
InitShowLog ==
    /\ rsc.pc = "uninit"
    /\ logs' = init_show_log(logs, log_params)
    /\ rsc' = ShowCall("idle", 0)
    /\ UNCHANGED <<log_params, exported, coreVars, rmVars, defVars, regVars, yamlVars>>

\* return_show_cmd(show_cmd, dut, test_name, test_parameters), lines 319-343.
\* test_if_files_on_ passes LOG_FILE; a caller may pass the definitions.
ReturnShowCmdCall(show_cmd, name, test_name, test_parameters) ==
    /\ rsc.pc = "idle"
    /\ rsc.calls < MaxCalls
    /\ rsc' = [ShowCall("enable", rsc.calls + 1) EXCEPT
                  !.show_cmd = show_cmd, !.name = name, !.test_name = test_name,
                  !.test_parameters = test_parameters]
    /\ UNCHANGED <<log_params, logs, exported, coreVars, rmVars, defVars, regVars, yamlVars>>

\* Variant: conn.enable inside the try, so that its failure leads to the
\* wait and the second attempt.
ConnEnable_in_try ==
    /\ rsc.pc = "enable"
    /\ \E ok \in BOOLEAN :
          rsc' = [rsc EXCEPT !.submitted = Append(@, [api |-> "enable", ok |-> ok]),
                             !.pc = IF ok THEN "text" ELSE "sleep"]
    /\ UNCHANGED <<log_params, logs, exported, coreVars, rmVars, defVars, regVars, yamlVars>>
\* Line 344: conn.enable(show_cmd), outside the try.
ConnEnable ==
    /\ rsc.pc = "enable"
    /\ \E ok \in BOOLEAN :
          rsc' = [rsc EXCEPT !.submitted = Append(@, [api |-> "enable", ok |-> ok]),
                             !.pc = IF ok THEN "text" ELSE "raised",
                             !.raised = IF ok THEN 0 ELSE Len(rsc.submitted) + 1]
    /\ UNCHANGED <<log_params, logs, exported, coreVars, rmVars, defVars, regVars, yamlVars>>

\* Lines 347-352: the first conn.run_commands(show_cmd, encoding="text").
RunCommandsText ==
    /\ rsc.pc = "text"
    /\ \E ok \in BOOLEAN :
          rsc' = [rsc EXCEPT !.submitted = Append(@, [api |-> "run_commands", ok |-> ok]),
                             !.pc = IF ok THEN "export" ELSE "sleep",
                             !.raw_text = IF ok THEN RawText(rsc.name, rsc.show_cmd) ELSE @]
    /\ UNCHANGED <<log_params, logs, exported, coreVars, rmVars, defVars, regVars, yamlVars>>

\* Line 353: time.sleep(1).
SleepOneSecond ==
    /\ rsc.pc = "sleep"
    /\ rsc' = [rsc EXCEPT !.slept = @ + 1, !.pc = "retry"]
    /\ UNCHANGED <<log_params, logs, exported, coreVars, rmVars, defVars, regVars, yamlVars>>

\* Lines 354-356: the second conn.run_commands, inside the except clause.
RunCommandsRetry ==
    /\ rsc.pc = "retry"
    /\ \E ok \in BOOLEAN :
          rsc' = [rsc EXCEPT !.submitted = Append(@, [api |-> "run_commands", ok |-> ok]),
                             !.pc = IF ok THEN "export" ELSE "raised",
                             !.raised = IF ok THEN 0 ELSE Len(rsc.submitted) + 1,
                             !.raw_text = IF ok THEN RawText(rsc.name, rsc.show_cmd) ELSE @]
    /\ UNCHANGED <<log_params, logs, exported, coreVars, rmVars, defVars, regVars, yamlVars>>

\* Line 361 and export_logs, lines 418-430: the block is appended, or the
\* file cannot be opened and the process exits.
ExportLogs ==
    /\ rsc.pc = "export"
    /\ \E opened \in BOOLEAN :
          IF opened
          THEN /\ logs' = export_logs(logs, rsc.test_name, rsc.name, rsc.raw_text,
                                      rsc.test_parameters)
               /\ exported' = Append(exported,
                      [test_name |-> rsc.test_name, hostname |-> rsc.name,
                       output |-> rsc.raw_text,
                       show_log |-> rsc.test_parameters.parameters.show_log])
               /\ rsc' = [rsc EXCEPT !.pc = "returned"]
          ELSE /\ rsc' = [rsc EXCEPT !.pc = "exit"]
               /\ UNCHANGED <<logs, exported>>
    /\ UNCHANGED <<log_params, coreVars, rmVars, defVars, regVars, yamlVars>>

\* The caller goes on after a return or an exception.
ReturnShowCmdDone ==
    /\ rsc.pc \in {"returned", "raised"}
    /\ rsc' = ShowCall("idle", rsc.calls)
    /\ UNCHANGED <<log_params, logs, exported, coreVars, rmVars, defVars, regVars, yamlVars>>

NextShow ==
    \/ InitShowLog
    \/ \E file_name \in FileNames, name \in ShowDuts, test_parameters \in {log_params, LOG_FILE} :
          ReturnShowCmdCall(ShowFile(file_name), name, FilesystemCase, test_parameters)
    \/ ConnEnable
    \/ RunCommandsText
    \/ SleepOneSecond
    \/ RunCommandsRetry
    \/ ExportLogs
    \/ ReturnShowCmdDone

SpecShow == InitShow /\ [][NextShow]_vars

\* C13: a failing command is tried once more after a one-second wait; the
\* second failure is the exception the caller gets; the command is never
\* submitted more than twice.
C13_Claim ==
    /\ Len(rsc.submitted) <= 2
    /\ rsc.pc = "raised" =>
          /\ Len(rsc.submitted) = 2
          /\ rsc.slept = 1
          /\ rsc.raised = 2

\* The blocks of the calls, one after the other.
RECURSIVE Blocks(_)
Blocks(calls) ==
    IF calls = << >> THEN << >>
    ELSE LogBlock(Head(calls).test_name, Head(calls).hostname, Head(calls).output)
         \o Blocks(Tail(calls))

\* C17: once init_show_log has run, the configured log holds exactly the
\* blocks of the export_logs calls that succeeded since, in call order.
C17_Claim ==
    rsc.pc # "uninit" => logs[log_params.parameters.show_log] = Blocks(exported)

\* The submissions of the current call made through conn.enable.
EnableSubmissions == {i \in 1..Len(rsc.submitted) : rsc.submitted[i].api = "enable"}

\* conn.enable is the call's first submission and its only one through
\* enable; when it fails the call ends there, with that exception.
EnableOnce ==
    /\ EnableSubmissions \subseteq {1}
    /\ rsc.submitted # << >> => EnableSubmissions = {1}
    /\ (rsc.submitted # << >> /\ ~rsc.submitted[1].ok) =>
          /\ rsc.pc = "raised"
          /\ rsc.raised = 1
          /\ Len(rsc.submitted) = 1

\* The log changes only where a call returns, by the one block of that
\* call, written after a text attempt that succeeded; a call that returns
\* has written its block, and a call that raises has written nothing.
AppendOnReturn ==
    /\ (rsc.pc # "uninit" /\ (logs' # logs \/ exported' # exported)) =>
          /\ rsc.pc = "export" /\ rsc'.pc = "returned"
          /\ rsc.submitted[Len(rsc.submitted)] = [api |-> "run_commands", ok |-> TRUE]
          /\ logs' = export_logs(logs, rsc.test_name, rsc.name,
                                 RawText(rsc.name, rsc.show_cmd), rsc.test_parameters)
          /\ Len(exported') = Len(exported) + 1
    /\ (rsc'.pc = "returned" /\ rsc.pc # "returned") =>
          /\ rsc.pc = "export"
          /\ Len(exported') = Len(exported) + 1
    /\ (rsc'.pc = "raised" /\ rsc.pc # "raised") =>
          /\ rsc.pc \in {"enable", "retry"}
          /\ logs' = logs

\* C25: in return_show_cmd conn.enable is issued once and never retried,
\* and its failure reaches the caller at once; a block is appended to the
\* show-command log once per call that returns, after a text attempt
\* succeeded, and none when conn.enable or both text attempts fail.
C25_Thm == []EnableOnce /\ [][AppendOnReturn]_vars

\* A second call ended by a failing conn.enable, after a first call that
\* returned: one block in the log.
C25_Witness ==
    /\ rsc.calls = 2
    /\ rsc.pc = "raised"
    /\ rsc.raised = 1
    /\ Len(exported) = 1
    /\ logs[exported[1].show_log] # << >>

----------------------------------------------------------------------------
(* Specification SpecDefs: return_show_cmds and get_parameters on any      *)
(* definitions                                                             *)

MaxSuites == 2        \* most test suites in the definitions
MaxCases == 2         \* most test cases in a suite

SuiteNames == {<<"test_a.py">>, <<"test_b.py">>}
CaseNames  == {<<"test_x">>, <<"test_y">>}

\* Python's None, which is no string.
None == <<"None">>

\* The test suites the definitions may list: names may repeat, among the
\* suites and among the test cases of a suite, and show_cmd may be None.
TestSuites ==
    {[name |-> n, testcases |-> t] :
        n \in SuiteNames,
        t \in ListsUpTo({[name |-> c, show_cmd |-> show_cmd, expected_output |-> 1] :
                            c \in CaseNames, show_cmd \in {ShowIp, ShowVersion, None}},
                        MaxCases)}

\* return_show_cmds, lines 606-612: the test cases of one suite.
RECURSIVE return_show_cmds_cases(_, _)
return_show_cmds_cases(show_cmds, test_cases) ==
    IF test_cases = << >> THEN show_cmds
    ELSE LET show_cmd == Head(test_cases).show_cmd
         IN  return_show_cmds_cases(
                 IF show_cmd \notin Range(show_cmds) /\ show_cmd # None
                 THEN Append(show_cmds, show_cmd) ELSE show_cmds,
                 Tail(test_cases))

\* return_show_cmds, lines 601-612: for test_suite in test_suites, from the
\* i-th name on; the suite read is the one at test_suites.index(test_suite).
RECURSIVE return_show_cmds_suites(_, _, _)
return_show_cmds_suites(show_cmds, test_data, i) ==
    IF i > Len(test_data) THEN show_cmds
    ELSE LET test_suites == [j \in 1..Len(test_data) |-> test_data[j].name]
             test_index  == ListIndex(test_suites, test_suites[i])
             test_cases  == test_data[test_index].testcases
         IN  return_show_cmds_suites(return_show_cmds_cases(show_cmds, test_cases),
                                     test_data, i + 1)

return_show_cmds(test_data) == return_show_cmds_suites(<< >>, test_data, 1)

\* A call of return_show_cmds or get_parameters.
DefsCall(fn, pc) ==
    [fn |-> fn, pc |-> pc, test_suite |-> << >>, test_case |-> << >>,
     show_cmds |-> << >>, ref |-> <<0, 0>>]

InitDefs ==
    /\ definitions \in ListsUpTo(TestSuites, MaxSuites)
    /\ td_call = DefsCall("none", "start")
    /\ CoreIdle
    /\ RemoveIdle /\ RegIdle /\ ShowIdle /\ YamlIdle

ReturnShowCmds ==
    /\ td_call.pc = "start"
    /\ td_call' = [DefsCall("return_show_cmds", "returned") EXCEPT
                      !.show_cmds = return_show_cmds(definitions)]
    /\ UNCHANGED <<coreVars, rmVars, regVars, showVars, yamlVars>>

\* get_parameters, lines 445-465: suite_parameters[0] and case_parameters[0]
\* raise IndexError on an empty list.
GetParameters(test_suite, test_case) ==
    /\ td_call.pc = "start"
    /\ LET call == [DefsCall("get_parameters", "raised") EXCEPT
                       !.test_suite = test_suite, !.test_case = test_case]
       IN  IF FirstNamed(definitions, BaseName(test_suite)) = 0
           THEN td_call' = call /\ UNCHANGED definitions
           ELSE LET ref == get_parameters(definitions, test_suite, test_case)
                IN  IF ref[2] = 0
                    THEN td_call' = call /\ UNCHANGED definitions
                    ELSE /\ td_call' = [call EXCEPT !.pc = "returned", !.ref = ref]
                         /\ definitions' = get_parameters_effect(definitions, test_suite, test_case)
    /\ UNCHANGED <<sendVars, fanVars, tops, files, testlog, rmVars, regVars, showVars, yamlVars>>

NextDefs ==
    \/ ReturnShowCmds
    \/ \E test_suite \in {PathA, PathB}, test_case \in CaseNames :
          GetParameters(test_suite, test_case)

SpecDefs == InitDefs /\ [][NextDefs]_vars

\* The show_cmd of every test case of every suite, in the definitions' order.
RECURSIVE EveryShowCmd(_)
EveryShowCmd(test_data) ==
    IF test_data = << >> THEN << >>
    ELSE [c \in 1..Len(Head(test_data).testcases) |-> Head(test_data).testcases[c].show_cmd]
         \o EveryShowCmd(Tail(test_data))

\* l with only the first occurrence of each member kept.
RECURSIVE FirstOccurrences(_)
FirstOccurrences(l) ==
    IF l = << >> THEN << >>
    ELSE LET before == FirstOccurrences(SubSeq(l, 1, Len(l) - 1))
         IN  IF l[Len(l)] \in Range(before) THEN before ELSE Append(before, l[Len(l)])

IsShowCmd(show_cmd) == show_cmd # None

\* C14: return_show_cmds returns every show_cmd that is not None of every
\* test case of every suite, once each, in order of first occurrence, and
\* nothing else.
C14_Claim ==
    (td_call.fn = "return_show_cmds" /\ td_call.pc = "returned") =>
        td_call.show_cmds = FirstOccurrences(SelectSeq(EveryShowCmd(definitions), IsShowCmd))

\* The places of the test cases named test_case in the suites whose name is
\* the base name of test_suite.
Matches(test_data, test_suite, test_case) ==
    {ref \in CasePlaces(test_data) :
        /\ test_data[ref[1]].name = BaseName(test_suite)
        /\ test_data[ref[1]].testcases[ref[2]].name = test_case}

Earlier(ref1, ref2) ==
    ref1[1] < ref2[1] \/ (ref1[1] = ref2[1] /\ ref1[2] <= ref2[2])

\* C15: when the suites of the requested base name hold a test case of the
\* requested name, get_parameters returns the first of them.
C15_Claim ==
    (td_call.fn = "get_parameters" /\ td_call.pc # "start") =>
        LET found == Matches(definitions, td_call.test_suite, td_call.test_case)
        IN  found # {} =>
                /\ td_call.pc = "returned"
                /\ td_call.ref \in found
                /\ \A ref \in found : Earlier(td_call.ref, ref)

----------------------------------------------------------------------------
(* Specification SpecYaml: concurrent callers of yaml_io on one file *)

YamlFile == <<"results.yml">>

\* The documents written and read.
YamlDocs == {<<"a">>, <<"b">>}

\* The concurrent callers; each open() gives the caller its own open file,
\* and a flock lock belongs to the open file that took it.
Callers == {1, 2}

NoLock == 0

MaxSleeps == 1        \* most 50 ms sleeps of one yaml_io call

\* A call of yaml_io.
YamlCall(pc, io_type, yaml_data) ==
    [pc |-> pc, io_type |-> io_type, yaml_data |-> yaml_data, sleeps |-> 0]

InitYaml ==
    /\ \E doc \in YamlDocs : yaml_files = (YamlFile :> doc)
    /\ flock = (YamlFile :> NoLock)
    /\ yio = [c \in Callers |-> YamlCall("idle", "none", << >>)]
    /\ CoreIdle
    /\ definitions = << >>
    /\ RemoveIdle /\ DefsIdle /\ RegIdle /\ ShowIdle

\* yaml_io(yaml_file, io_type, yaml_data), line 570.
YamlIoCall(c, io_type, yaml_data) ==
    /\ yio[c].pc = "idle"
    /\ yio' = [yio EXCEPT ![c] = YamlCall("open", io_type, yaml_data)]
    /\ UNCHANGED <<yaml_files, flock, coreVars, rmVars, defVars, regVars, showVars>>

\* Line 573: open(yaml_file, "r").
YamlOpenRead(c) ==
    /\ yio[c].pc = "open"
    /\ yio[c].io_type = "read"
    /\ yio' = [yio EXCEPT ![c].pc = "flock"]
    /\ UNCHANGED <<yaml_files, flock, coreVars, rmVars, defVars, regVars, showVars>>

\* Line 574: flock(LOCK_EX | LOCK_NB) takes the lock, or raises when another
\* open file holds it; the with block then closes the file and the bare
\* except of line 582 is entered.
YamlFlock(c) ==
    /\ yio[c].pc = "flock"
    /\ IF flock[YamlFile] = NoLock
       THEN /\ flock' = [flock EXCEPT ![YamlFile] = c]
            /\ yio' = [yio EXCEPT ![c].pc = "load"]
       ELSE /\ flock' = flock
            /\ yio' = [yio EXCEPT ![c].pc = "sleep"]
    /\ UNCHANGED <<yaml_files, coreVars, rmVars, defVars, regVars, showVars>>

\* Lines 575-576: yaml.safe_load, break; leaving the with block closes the
\* file, which drops its lock.
YamlLoad(c) ==
    /\ yio[c].pc = "load"
    /\ yio' = [yio EXCEPT ![c].pc = "returned", ![c].yaml_data = yaml_files[YamlFile]]
    /\ flock' = [flock EXCEPT ![YamlFile] = IF @ = c THEN NoLock ELSE @]
    /\ UNCHANGED <<yaml_files, coreVars, rmVars, defVars, regVars, showVars>>

\* Line 583: time.sleep(0.05), then the loop tries again.
YamlSleep(c) ==
    /\ yio[c].pc = "sleep"
    /\ yio[c].sleeps < MaxSleeps
    /\ yio' = [yio EXCEPT ![c].pc = "open", ![c].sleeps = @ + 1]
    /\ UNCHANGED <<yaml_files, flock, coreVars, rmVars, defVars, regVars, showVars>>

\* Line 578: open(yaml_file, "w") truncates the file.
YamlOpenWrite(c) ==
    /\ yio[c].pc = "open"
    /\ yio[c].io_type = "write"
    /\ yaml_files' = [yaml_files EXCEPT ![YamlFile] = << >>]
    /\ yio' = [yio EXCEPT ![c].pc = "dump"]
    /\ UNCHANGED <<flock, coreVars, rmVars, defVars, regVars, showVars>>

\* Line 579: yaml.dump writes the document and flushes.
YamlDump(c) ==
    /\ yio[c].pc = "dump"
    /\ yaml_files' = [yaml_files EXCEPT ![YamlFile] = yio[c].yaml_data]
    /\ yio' = [yio EXCEPT ![c].pc = "unlock"]
    /\ UNCHANGED <<flock, coreVars, rmVars, defVars, regVars, showVars>>

\* Lines 580-581: flock(LOCK_UN) on the caller's own open file, break.
YamlUnlock(c) ==
    /\ yio[c].pc = "unlock"
    /\ flock' = [flock EXCEPT ![YamlFile] = IF @ = c THEN NoLock ELSE @]
    /\ yio' = [yio EXCEPT ![c].pc = "returned"]
    /\ UNCHANGED <<yaml_files, coreVars, rmVars, defVars, regVars, showVars>>

NextYaml ==
    \/ \E c \in Callers : YamlIoCall(c, "read", << >>)
    \/ \E c \in Callers, yaml_data \in YamlDocs : YamlIoCall(c, "write", yaml_data)
    \/ \E c \in Callers : YamlOpenRead(c)
    \/ \E c \in Callers : YamlFlock(c)
    \/ \E c \in Callers : YamlLoad(c)
    \/ \E c \in Callers : YamlSleep(c)
    \/ \E c \in Callers : YamlOpenWrite(c)
    \/ \E c \in Callers : YamlDump(c)
    \/ \E c \in Callers : YamlUnlock(c)

SpecYaml == InitYaml /\ [][NextYaml]_vars

\* C16: a yaml_io call reads the file's content only while it holds the
\* file's lock, and the content changes only in a step of the call that
\* holds the lock, so never while another call holds it.
C16_Claim ==
    [][\A c \in Callers :
          /\ (yio[c].pc = "load" /\ yio'[c].pc = "returned") => flock[YamlFile] = c
          /\ (yio'[c] # yio[c] /\ yaml_files'[YamlFile] # yaml_files[YamlFile])
                => flock[YamlFile] = c]_vars

====
